---------------------------- MODULE Spec2Model ----------------------------
(***************************************************************************)
(* Model of the phish-gram backend: the WebSocket session state machine    *)
(* (backend/websocket/Session.js), the connection handler                  *)
(* (WebSocketHandler.js), the session registry (SessionManager), the       *)
(* browser controller (TelegramAutomator) with its input strategy and its *)
(* element searches (ElementFinder), and the graceful shutdown of          *)
(* server.js.                                                              *)
(*                                                                         *)
(* Node runs one callback at a time.  Every `await` on real I/O (browser   *)
(* launch, a page call, page/browser close) is a position ("pc") of a task *)
(* record; the I/O completing is an action of the model.  A continuation   *)
(* that is only waiting for an already settled promise (pc "settled",      *)
(* sweep "resume", the Promise.all of shutdown) is a microtask: no timer,  *)
(* socket or I/O callback runs while one is pending (Busy).                *)
(***************************************************************************)
EXTENDS Integers, Sequences, FiniteSets

(* ------------------------------ bounds -------------------------------- *)
MaxSessions == 2    \* connections accepted in one run
MaxMsgs == 4        \* inbound payloads delivered in one run (all sessions)
MaxLaunch == 2      \* browser launches that complete, per controller
MaxTicks == 2       \* clock advances in one run
MaxPhones == 2      \* submit_phone payloads in a run of SpecController
MaxPings == 1       \* ping payloads in a run of SpecSweep
MaxSubmits == 3     \* submission payloads in a run of SpecSession
MaxLocators == 2    \* locators (XPath selectors) in a set given to a search
MaxPasses == 3      \* polling passes of one search
MaxTimeout == 2     \* the positive timeout of a search, in check intervals
MaxMatches == 2     \* elements that one locator's query returns
MaxField == 3       \* characters in the phone input and in a phone number
MaxRandom == 2      \* different values of the random part of a session id
MaxCreates == 3     \* createSession calls in a run of SpecIds

(* config.session.timeout, in milliseconds *)
Timeout == 30 * 60 * 1000

Ids == 1..MaxSessions
BrowserIds == 1..MaxLaunch

VARIABLES
    sessions,      \* SessionManager.sessions: the keys of the Map
    created,       \* ids handed out by createSession so far
    status,        \* WebSocketSession.status
    ws,            \* ws.readyState of the session's socket
    sent,          \* what was handed to ws.send: how many payloads (n), the
                   \* type of the last one (last) and, for the result of a
                   \* controller operation, its message (msg)
    lastActivity,  \* WebSocketSession.lastActivity (ms)
    delivered,     \* inbound payloads delivered to 'message' listeners
    lastMsg,       \* history: the payload delivered last (session, data.type)
    ops,           \* async calls awaiting browser I/O: initializeBrowser and
                   \* the handle*Submission calls with their controller op;
                   \* out/msg are the result of the operation and fx what it
                   \* did to and saw on the page (history)
    browser,       \* TelegramAutomator.browser (0 = null)
    page,          \* TelegramAutomator.page (0 = null)
    strat,         \* page held by finder/navigation/input (0 = null)
    open,          \* browsers launched by the controller and not closed
    live,          \* pages of those browsers that are not closed
    nlaunch,       \* launches of the controller that completed
    removals,      \* removeSession calls awaiting their cleanup
    sweep,         \* cleanupExpiredSessions pass in progress
    timer,         \* the setInterval of startCleanupInterval is armed
    phase,         \* "running", "awaiting" (shutdown awaited), "exited"
    now,           \* Date.now()
    ticks,         \* clock advances so far
    search,        \* a call of an ElementFinder search and its polling loop
    click,         \* a call of ElementFinder.safeClick and its retry loop
    field,         \* the phone input of the page and the last inputPhoneNumber
    registry,      \* SessionManager.sessions as a Map: <<id string, session>>
    made,          \* sessions constructed by createSession so far
    removeCalls,   \* history: calls of removeSession(id) per id
    cleanupRuns,   \* history: calls of session.cleanup() per id
    deletes        \* history: sessions.delete(id) calls that removed an entry

vars == <<sessions, created, status, ws, sent, lastActivity, delivered, lastMsg,
          ops, browser, page, strat, open, live, nlaunch, removals, sweep, timer,
          phase, now, ticks, search, click, field, registry, made, removeCalls,
          cleanupRuns, deletes>>

sessVars == <<status, ws, sent, lastActivity, delivered, lastMsg>>
ctlVars == <<browser, page, strat, open, live, nlaunch>>
regVars == <<sessions, created, removals, sweep, timer, removeCalls, cleanupRuns,
            deletes>>
clockVars == <<now, ticks>>
finderVars == <<search, click, field>>
idVars == <<registry, made>>

(* ------------------------------ helpers ------------------------------- *)
Statuses == {"idle", "processing_phone", "waiting_code", "processing_code",
             "waiting_password", "processing_password", "verified", "error"}

ControllerOps == {"submitPhone", "submitCode", "submitPassword"}

(* positions at which a task is awaiting a call on page t.pg *)
PagePcs == {"ua", "prepare", "check", "drive"}

(* a new task record of session s; n tells apart the calls of one session  *)
(* that are in flight together (the least number not in use)               *)
Task(s, op) ==
    LET used == {t.n : t \in {u \in ops : u.s = s}}
        n == CHOOSE k \in 0..Cardinality(used) :
                 k \notin used /\ \A j \in 0..Cardinality(used) : j \notin used => k <= j
    IN [s |-> s, n |-> n, op |-> op, pc |-> "settled",
        pg |-> 0, ret |-> "done", out |-> "fail", msg |-> "", fx |-> {}]

RECURSIVE SortedSeq(_)
SortedSeq(S) == IF S = {} THEN <<>>
                ELSE LET m == CHOOSE x \in S : \A y \in S : x <= y
                     IN <<m>> \o SortedSeq(S \ {m})

(* WebSocketSession.send: dropped unless the socket is OPEN *)
sendText(snt, s, m, text) ==
    IF ws[s] = "OPEN"
    THEN [snt EXCEPT ![s] = [n |-> @.n + 1, last |-> m, msg |-> text]]
    ELSE snt

sendUnchecked(snt, s, m) ==
    [snt EXCEPT ![s] = [n |-> @.n + 1, last |-> m, msg |-> ""]]

send(snt, s, m) == sendText(snt, s, m, "")

sendErrorSilent(snt, s) == snt
sendError(snt, s) == send(snt, s, "error")

Alive == phase # "exited"

ShutdownPendingNever == FALSE
ShutdownPending == \E r \in removals : r.caller = "shutdown"

(* a continuation is queued as a microtask *)
Busy == \/ \E t \in ops : t.pc = "settled"
        \/ \E r \in removals : r.pc = "settled"
        \/ sweep.pc = "resume"
        \/ phase = "awaiting" /\ ~ShutdownPending

Idle == Alive /\ ~Busy


(* safeClick has not been called *)
NoClick == [pc |-> "idle", i |-> 0, attempts |-> 0, clicked |-> FALSE,
            waited |-> 0, result |-> "none", err |-> 0]

(* the phone input is empty and inputPhoneNumber has not been called *)
NoInput == [value |-> <<>>, pc |-> "idle", phone |-> <<>>, before |-> <<>>,
            typed |-> <<>>, cleared |-> FALSE]

(* no ElementFinder search has been called *)
NoSearch == [fn |-> "none", timeout |-> 0, pc |-> "idle", set |-> 1, pos |-> 1,
             pass |-> 1, elapsed |-> 0, result |-> "none", crit |-> FALSE,
             hit |-> <<>>, el |-> 0, passed |-> FALSE]

(* --------------------------- initial state ---------------------------- *)
(* server.js: the SessionManager is constructed (empty Map, sweep timer    *)
(* armed) and no connection has been accepted yet.                         *)
Init ==
    /\ sessions = {} /\ created = {}
    /\ status = [s \in Ids |-> "idle"]
    /\ ws = [s \in Ids |-> "NONE"]
    /\ sent = [s \in Ids |-> [n |-> 0, last |-> "none", msg |-> ""]]
    /\ lastActivity = [s \in Ids |-> 0]
    /\ delivered = 0
    /\ lastMsg = [s |-> 0, type |-> "none"]
    /\ ops = {}
    /\ browser = [s \in Ids |-> 0]
    /\ page = [s \in Ids |-> 0]
    /\ strat = [s \in Ids |-> 0]
    /\ open = [s \in Ids |-> {}]
    /\ live = [s \in Ids |-> {}]
    /\ nlaunch = [s \in Ids |-> 0]
    /\ removals = {}
    /\ sweep = [pc |-> "idle", list |-> <<>>, idle |-> <<>>]
    /\ timer = TRUE
    /\ phase = "running"
    /\ now = 0 /\ ticks = 0
    /\ search = NoSearch
    /\ click = NoClick
    /\ field = NoInput
    /\ registry = {} /\ made = 0
    /\ removeCalls = [s \in Ids |-> 0]
    /\ cleanupRuns = [s \in Ids |-> 0]
    /\ deletes = [s \in Ids |-> 0]

(* ------------------- TelegramAutomator: entry points ------------------ *)
(* Each operator runs the synchronous code from a call (or from the        *)
(* resumption after an await) up to the next await on browser I/O, and     *)
(* gives the task record there.  br, pg, st are this.browser, this.page    *)
(* and the page of this.finder/navigation/input at that moment.            *)

(* error.message of an exception raised by the browser or by a null        *)
(* dereference                                                             *)
ExceptionMessage == "exception"

(* an exception reaches the catch at the operation boundary *)
Fail(t) == [t EXCEPT !.pc = "settled", !.out = "fail", !.pg = 0,
                     !.msg = ExceptionMessage]

Done(t, out) == [t EXCEPT !.pc = "settled", !.out = out, !.pg = 0]

(* initialize(), the try block: navigateToTelegram, waitAndClick,          *)
(* waitForElement; a null navigation object or page raises a TypeError     *)
navigate(t, st) ==
    IF st = 0 THEN Fail(t) ELSE [t EXCEPT !.pc = "prepare", !.pg = st]

(* initialize() -> init(): `if (this.browser) return`, else launch *)
initialize(t, br, st) ==
    IF br = 0 THEN [t EXCEPT !.pc = "launch", !.pg = 0] ELSE navigate(t, st)

(* submitPhone: inputPhoneNumber .. waitForEither *)
inputPhone(t, st) ==
    IF st = 0 THEN Fail(t) ELSE [t EXCEPT !.pc = "drive", !.pg = st]

(* submitPhone: the quick phone-input check; a TypeError on a null finder  *)
(* lands in the inner catch, which calls initialize() again                *)
phoneInputCheck(t, br, st) ==
    IF st = 0 THEN initialize([t EXCEPT !.ret = "drive"], br, st)
    ELSE [t EXCEPT !.pc = "check", !.pg = st]

NeedsInit(br) == br = 0

submitPhone(t, br, st) ==
    IF NeedsInit(br) THEN initialize([t EXCEPT !.ret = "check"], br, st)
    ELSE phoneInputCheck(t, br, st)

submitCode(t, pg, st) ==
    IF pg = 0 \/ st = 0 THEN Fail(t) ELSE [t EXCEPT !.pc = "drive", !.pg = st]

submitPassword(t, pg) ==
    IF pg = 0 THEN Fail(t) ELSE [t EXCEPT !.pc = "drive", !.pg = pg]

(* the caller of initialize() resumes *)
afterInitialize(t, br, st) ==
    CASE t.ret = "ready" -> Done(t, "ok")
      [] t.ret = "check" -> phoneInputCheck(t, br, st)
      [] OTHER -> inputPhone(t, st)

(* ---------------------- connection and messages ----------------------- *)
(* WebSocketHandler.handleConnection -> SessionManager.createSession ->    *)
(* new WebSocketSession (which starts initializeBrowser) -> `connected`.   *)
(* Ids are handed out in increasing order (Map insertion order).           *)
handleConnection(s) ==
    /\ Idle /\ phase = "running"
    /\ s \notin created /\ \A j \in Ids : j < s => j \in created
    /\ created' = created \cup {s}
    /\ sessions' = sessions \cup {s}
    /\ ws' = [ws EXCEPT ![s] = "OPEN"]
    /\ status' = [status EXCEPT ![s] = "idle"]
    /\ lastActivity' = [lastActivity EXCEPT ![s] = now]
    /\ ops' = ops \cup
         {initialize([Task(s, "initializeBrowser") EXCEPT !.ret = "ready"],
                     browser[s], strat[s])}
    /\ sent' = [sent EXCEPT ![s] = [n |-> @.n + 1, last |-> "connected",
                                     msg |-> ""]]
    /\ UNCHANGED <<delivered, lastMsg, ctlVars, removals, sweep, timer, phase,
                   clockVars, finderVars, idVars, removeCalls, cleanupRuns, deletes>>

(* the 'message' listener is called with a payload that parses as JSON;    *)
(* handleMessage starts with updateActivity()                              *)
Deliver(s, type) ==
    /\ Idle
    /\ ws[s] \in {"OPEN", "CLOSING"}
    /\ delivered < MaxMsgs
    /\ delivered' = delivered + 1
    /\ lastMsg' = [s |-> s, type |-> type]
    /\ lastActivity' = [lastActivity EXCEPT ![s] = now]
    /\ UNCHANGED <<ws, ctlVars, regVars, phase, clockVars, finderVars, idVars>>

PhoneGuardLoose(st) == st # "processing_phone"
PhoneGuard(st) == st \in {"idle", "error"}
CodeGuard(st) == st = "waiting_code"
PasswordGuard(st) == st = "waiting_password"
ReturnGuardWaitingOnly(st) == st = "waiting_code"
ReturnGuard(st) == st \in {"waiting_code", "processing_code"}

handlePhoneSubmission(s) ==
    /\ Deliver(s, "submit_phone")
    /\ IF ~PhoneGuard(status[s])
       THEN /\ sent' = sendError(sent, s)
            /\ UNCHANGED <<status, ops>>
       ELSE /\ status' = [status EXCEPT ![s] = "processing_phone"]
            /\ sent' = send(sent, s, "phone_processing")
            /\ ops' = ops \cup {submitPhone(Task(s, "submitPhone"),
                                            browser[s], strat[s])}

handleCodeSubmission(s) ==
    /\ Deliver(s, "submit_code")
    /\ IF ~CodeGuard(status[s])
       THEN /\ sent' = sendError(sent, s)
            /\ UNCHANGED <<status, ops>>
       ELSE /\ status' = [status EXCEPT ![s] = "processing_code"]
            /\ sent' = send(sent, s, "code_processing")
            /\ ops' = ops \cup {submitCode(Task(s, "submitCode"),
                                           page[s], strat[s])}

handlePasswordSubmission(s) ==
    /\ Deliver(s, "submit_password")
    /\ IF ~PasswordGuard(status[s])
       THEN /\ sent' = sendError(sent, s)
            /\ UNCHANGED <<status, ops>>
       ELSE /\ status' = [status EXCEPT ![s] = "processing_password"]
            /\ sent' = send(sent, s, "password_processing")
            /\ ops' = ops \cup
                 {submitPassword(Task(s, "submitPassword"), page[s])}

handleUserReturnedToPhone(s) ==
    /\ Deliver(s, "user_returned_to_phone")
    /\ status' = IF ReturnGuard(status[s]) THEN [status EXCEPT ![s] = "idle"]
                 ELSE status
    /\ sent' = send(sent, s, "state_reset")
    /\ UNCHANGED ops

handlePingWhenFree(s) ==
    /\ Deliver(s, "ping")
    /\ sent' = IF \E t \in ops : t.s = s THEN sendError(sent, s)
               ELSE send(sent, s, "pong")
    /\ UNCHANGED <<status, ops>>

handlePing(s) ==
    /\ Deliver(s, "ping")
    /\ sent' = send(sent, s, "pong")
    /\ UNCHANGED <<status, ops>>

(* handleMessage, default branch: throw, caught, sendError *)
handleUnknown(s) ==
    /\ Deliver(s, "unknown")
    /\ sent' = sendError(sent, s)
    /\ UNCHANGED <<status, ops>>

(* the listener's JSON.parse throws a SyntaxError: sendError, and          *)
(* handleMessage (so updateActivity) is never called                       *)
invalidJson(s) ==
    /\ Idle
    /\ ws[s] \in {"OPEN", "CLOSING"}
    /\ delivered < MaxMsgs
    /\ delivered' = delivered + 1
    /\ lastMsg' = [s |-> s, type |-> "malformed"]
    /\ sent' = sendError(sent, s)
    /\ UNCHANGED <<status, ws, lastActivity, ops, ctlVars, regVars, phase,
                   clockVars, finderVars, idVars>>

(* -------------------- browser I/O of the controller ------------------- *)
Replace(t, u) == (ops \ {t}) \cup {u}

(* init(): puppeteer.launch resolves; `this.browser = ...`, then pages() *)
launchDone(t) ==
    /\ Idle /\ t \in ops /\ t.pc = "launch"
    /\ nlaunch[t.s] < MaxLaunch
    /\ LET b == nlaunch[t.s] + 1 IN
        /\ nlaunch' = [nlaunch EXCEPT ![t.s] = b]
        /\ browser' = [browser EXCEPT ![t.s] = b]
        /\ open' = [open EXCEPT ![t.s] = @ \cup {b}]
        /\ live' = [live EXCEPT ![t.s] = @ \cup {b}]
        /\ ops' = Replace(t, [t EXCEPT !.pc = "pages", !.pg = b])
    /\ UNCHANGED <<sessVars, page, strat, regVars, phase, clockVars, finderVars, idVars>>

(* init(): browser.pages() resolves; `this.page = pages[0]`, setUserAgent *)
pagesDone(t) ==
    /\ Idle /\ t \in ops /\ t.pc = "pages"
    /\ t.pg \in open[t.s]
    /\ page' = [page EXCEPT ![t.s] = t.pg]
    /\ ops' = Replace(t, [t EXCEPT !.pc = "ua"])
    /\ UNCHANGED <<sessVars, browser, strat, open, live, nlaunch, regVars,
                   phase, clockVars, finderVars, idVars>>

(* init(): setUserAgent resolves; the strategy objects are built on        *)
(* this.page as it is now, init() returns and initialize() navigates       *)
uaDone(t) ==
    /\ Idle /\ t \in ops /\ t.pc = "ua"
    /\ t.pg \in live[t.s]
    /\ strat' = [strat EXCEPT ![t.s] = page[t.s]]
    /\ ops' = Replace(t, navigate(t, page[t.s]))
    /\ UNCHANGED <<sessVars, browser, page, open, live, nlaunch, regVars,
                   phase, clockVars, finderVars, idVars>>

(* initialize(): navigation, login click and phone-field wait all done *)
prepareDone(t) ==
    /\ Idle /\ t \in ops /\ t.pc = "prepare"
    /\ t.pg \in live[t.s]
    /\ ops' = Replace(t, afterInitialize(t, browser[t.s], strat[t.s]))
    /\ UNCHANGED <<sessVars, ctlVars, regVars, phase, clockVars, finderVars, idVars>>

(* an awaited call of init()/initialize() rejects (launch failure,         *)
(* navigation timeout, closed target): initialize() rethrows               *)
initializeFailed(t) ==
    /\ Idle /\ t \in ops /\ t.pc \in {"launch", "pages", "ua", "prepare"}
    /\ ops' = Replace(t, Fail(t))
    /\ UNCHANGED <<sessVars, ctlVars, regVars, phase, clockVars, finderVars, idVars>>

(* submitPhone: the quick check finds the phone field *)
checkFound(t) ==
    /\ Idle /\ t \in ops /\ t.pc = "check"
    /\ t.pg \in live[t.s]
    /\ ops' = Replace(t, inputPhone(t, strat[t.s]))
    /\ UNCHANGED <<sessVars, ctlVars, regVars, phase, clockVars, finderVars, idVars>>

(* submitPhone: the quick check throws; inner catch, initialize() again *)
checkMissing(t) ==
    /\ Idle /\ t \in ops /\ t.pc = "check"
    /\ ops' = Replace(t, initialize([t EXCEPT !.ret = "drive"],
                                    browser[t.s], strat[t.s]))
    /\ UNCHANGED <<sessVars, ctlVars, regVars, phase, clockVars, finderVars, idVars>>

(* ------------- the page interaction of the three operations ---------- *)
(* What the page does during one operation is a record b of the outcomes   *)
(* of the page calls the operation makes; "throws" is a rejected call      *)
(* (timeout, detached frame, closed target).  Each operator below computes *)
(* the operation's result from b as the code does: out is "ok"             *)
(* ({success: true}), "pw" ({success: false, passwordRequired: true}),     *)
(* "fail" ({success: false, error: msg}) or "thrown" (an exception on its  *)
(* way to the enclosing catch); fx is what was done to the page, and       *)
(* "success" when the polled function saw the success markers.             *)

(* String.prototype.trim on the texts a page shows *)
trim(x) ==
    CASE x = " Invalid password " -> "Invalid password"
      [] x = " Invalid phone number " -> "Invalid phone number"
      [] x = " " -> ""
      [] OTHER -> x

(* a || d on strings *)
OrDefault(a, d) == IF a = "" THEN d ELSE a

(* String.prototype.includes on a text given as its words *)
includes(text, word) == \E i \in DOMAIN text : text[i] = word

ButtonTexts == {<<"NEXT">>, <<"PHONE", "NUMBER", "BANNED">>, <<"FLOOD", "WAIT">>, <<>>}
PhoneErrorTexts == {"Invalid phone number", " Invalid phone number ", ""}
CodeErrorTexts == {"Invalid code"}
PasswordLabels == {"Invalid password", " Invalid password ", "Password", ""}
PasswordAriaLabels == {"", "Password"}

Returned(out, msg, fx) == [out |-> out, msg |-> msg, fx |-> fx]
Thrown(msg, fx) == [out |-> "thrown", msg |-> msg, fx |-> fx]

(* the catch at the boundary of an operation:                              *)
(* return { success: false, error: error.message || default }              *)
AtBoundaryUncaught(r, default) ==
    IF r.out = "thrown" THEN [r EXCEPT !.out = "raised"] ELSE r
AtBoundary(r, default) ==
    IF r.out = "thrown"
    THEN [r EXCEPT !.out = "fail", !.msg = OrDefault(r.msg, default)]
    ELSE r

(* InputStrategy.clickSubmitButton *)
clickSubmitButtonClicksAnyway(b) ==
    IF b.click = "throws" THEN Thrown(ExceptionMessage, {})
    ELSE Returned("ok", "", {"clicked"})
clickSubmitButtonFailsWhenMissing(b) ==
    CASE b.button \in {"throws", "notFound"} -> Thrown(ExceptionMessage, {})
      [] OTHER ->
           IF b.buttonText # <<>> /\ includes(b.buttonText, "BANNED")
           THEN Thrown("Phone number is banned", {})
           ELSE IF b.buttonText # <<>> /\ includes(b.buttonText, "FLOOD")
           THEN Thrown("Too many attempts. Please try later", {})
           ELSE IF b.click = "throws" THEN Thrown(ExceptionMessage, {})
           ELSE Returned("ok", "", {"clicked"})
clickSubmitButton(b) ==
    CASE b.button = "throws" -> Thrown(ExceptionMessage, {})
      [] b.button = "notFound" ->
           IF b.enter = "throws" THEN Thrown(ExceptionMessage, {})
           ELSE Returned("ok", "", {"enter"})
      [] OTHER ->
           IF b.buttonText # <<>> /\ includes(b.buttonText, "BANNED")
           THEN Thrown("Phone number is banned", {})
           ELSE IF b.buttonText # <<>> /\ includes(b.buttonText, "FLOOD")
           THEN Thrown("Too many attempts. Please try later", {})
           ELSE IF b.click = "throws" THEN Thrown(ExceptionMessage, {})
           ELSE Returned("ok", "", {"clicked"})

(* what one pass of waitForEither finds: the page answers (active), an     *)
(* element of the first set is visible, one of the second set is visible   *)
EitherPasses == [active : BOOLEAN, first : BOOLEAN, second : BOOLEAN]

(* ElementFinder.waitForEither, one pass of its loop; "none" goes on to    *)
(* the next pass (submitPhone passes timeout 0)                            *)
waitForEitherPassSecondFirst(p) ==
    CASE ~p.active -> "throws"
      [] p.second -> "condition2"
      [] p.first -> "condition1"
      [] OTHER -> "none"
waitForEitherPass(p) ==
    CASE ~p.active -> "throws"
      [] p.first -> "condition1"
      [] p.second -> "condition2"
      [] OTHER -> "none"

PhoneBehaviours ==
    [input : {"ok", "throws"}, button : {"found", "notFound", "throws"},
     buttonText : ButtonTexts, click : {"ok", "throws"},
     enter : {"ok", "throws"},
     either : {waitForEitherPass(p) : p \in EitherPasses} \ {"none"},
     text : PhoneErrorTexts, evaluate : {"ok", "throws"}]

(* submitPhone from inputPhoneNumber on *)
submitPhoneDrive(b) ==
    IF b.input = "throws" THEN Thrown(ExceptionMessage, {})
    ELSE LET c == clickSubmitButton(b) IN
         IF c.out = "thrown" THEN c
         ELSE CASE b.either = "throws" -> Thrown(ExceptionMessage, c.fx)
                [] b.either = "condition1" -> Returned("ok", "", c.fx)
                [] OTHER ->
                     Returned("fail",
                              IF b.evaluate = "throws" THEN "Unknown error"
                              ELSE trim(b.text),
                              c.fx)

(* what the page shows while submitCode polls it *)
CodePageStates == [markers : BOOLEAN, password : BOOLEAN, error : BOOLEAN]

(* submitCode: the function polled in the page; "none" is its null *)
codeCheckPasswordFirst(p) ==
    CASE p.password -> "password_required"
      [] p.markers -> "success"
      [] p.error -> "error"
      [] OTHER -> "none"
codeCheck(p) ==
    CASE p.markers -> "success"
      [] p.password -> "password_required"
      [] p.error -> "error"
      [] OTHER -> "none"

(* page.waitForFunction on a page that stays as it is: the value of the    *)
(* polled function, or a TimeoutError when it stays null                   *)
waitForFunction(value) == IF value = "none" THEN "throws" ELSE value

CodeBehaviours ==
    [input : {"ok", "throws"}, early : {"password", "none", "throws"},
     codeInput : {"present", "absent", "throws"},
     wait : {waitForFunction(codeCheck(p)) : p \in CodePageStates} \cup {"throws"},
     text : CodeErrorTexts, clear : {"ok", "throws"},
     passwordCheck : {"yes", "no", "throws"}]

(* submitCode: the catch (waitError) around the bounded wait *)
passwordCheckAfterWait(b) ==
    CASE b.passwordCheck = "throws" -> Thrown(ExceptionMessage, {})
      [] b.passwordCheck = "yes" -> Returned("pw", "", {})
      [] OTHER -> Returned("ok", "", {})

(* submitCode: the bounded wait on the page and its result *)
EscalatesNever(b) == FALSE
Escalates(b) == b.wait = "password_required"

(* submitCode from inputVerificationCode on *)
submitCodeDrive(b) ==
    CASE b.input = "throws" \/ b.early = "throws" -> Thrown(ExceptionMessage, {})
      [] b.early = "password" -> Returned("pw", "", {})
      [] b.codeInput = "throws" -> passwordCheckAfterWait(b)
      [] b.codeInput = "absent" -> Returned("ok", "", {})
      [] b.wait = "throws" -> passwordCheckAfterWait(b)
      [] Escalates(b) -> Returned("pw", "", {})
      [] b.wait = "error" ->
           IF b.clear = "throws" THEN passwordCheckAfterWait(b)
           ELSE Returned("fail", b.text, {"cleared"})
      [] OTHER -> Returned("ok", "", {"success"})

PasswordBehaviours ==
    [field : {"found", "throws"}, submit : {"clicked", "enter", "throws"},
     wait : {"success", "error", "throws"}, label : PasswordLabels,
     aria : PasswordAriaLabels, clear : {"ok", "throws"}]

(* submitPassword: the function polled in the page, error branch *)
passwordErrorMessageDefault(label, aria) == "Invalid password, please try again"
passwordErrorMessage(label, aria) ==
    IF label # "" /\ trim(label) # "Password" /\ trim(label) # "" THEN trim(label)
    ELSE IF aria # "" /\ aria # "Password" THEN aria
    ELSE "Invalid password, please try again"

(* submitPassword from waitForSelector on *)
submitPasswordDrive(b) ==
    CASE b.field = "throws" \/ b.submit = "throws" -> Thrown(ExceptionMessage, {})
      [] b.wait = "error" ->
           IF b.clear = "throws" THEN Returned("ok", "", {})
           ELSE Returned("fail", passwordErrorMessage(b.label, b.aria),
                         {"cleared"})
      [] b.wait = "throws" -> Returned("ok", "", {})
      [] OTHER -> Returned("ok", "", {"success"})

(* the calls on a page that is closed all reject *)
PageGone(b) ==
    /\ "input" \in DOMAIN b => b.input = "throws"
    /\ "field" \in DOMAIN b => b.field = "throws"

Behaviours(op) ==
    CASE op = "submitPhone" -> PhoneBehaviours
      [] op = "submitCode" -> CodeBehaviours
      [] OTHER -> PasswordBehaviours

(* the result of operation op when the page behaves as b *)
Result(op, b) ==
    CASE op = "submitPhone" ->
           AtBoundary(submitPhoneDrive(b), "Failed to submit phone number")
      [] op = "submitCode" ->
           AtBoundary(submitCodeDrive(b), "Failed to submit verification code")
      [] OTHER ->
           AtBoundary(submitPasswordDrive(b), "Failed to submit password")

(* the results of each operation over all behaviours of an open page and   *)
(* of a closed one                                                         *)
Results ==
    [op \in ControllerOps |->
        [gone \in BOOLEAN |->
            {Result(op, b) : b \in {x \in Behaviours(op) : gone => PageGone(x)}}]]

Finish(t, r) == [t EXCEPT !.pc = "settled", !.pg = 0, !.out = r.out,
                          !.msg = r.msg, !.fx = r.fx]

(* the page interaction of submitPhone/submitCode/submitPassword ends *)
driveDone(t) ==
    /\ Idle /\ t \in ops /\ t.pc = "drive"
    /\ \E r \in Results[t.op][t.pg \notin live[t.s]] :
           ops' = Replace(t, Finish(t, r))
    /\ UNCHANGED <<sessVars, ctlVars, regVars, phase, clockVars, finderVars, idVars>>

(* --------------- continuations after the awaited operation ------------ *)
Settled(t, op) == Alive /\ t \in ops /\ t.pc = "settled" /\ t.op = op

initializeBrowserResumeAlwaysReady(t) ==
    /\ Settled(t, "initializeBrowser")
    /\ ops' = ops \ {t}
    /\ sent' = send(sent, t.s, "browser_ready")
    /\ UNCHANGED <<status, ws, lastActivity, delivered, lastMsg, ctlVars, regVars,
                   phase, clockVars, finderVars, idVars>>

(* initializeBrowser after `await this.automator.initialize()` *)
initializeBrowserResume(t) ==
    /\ Settled(t, "initializeBrowser")
    /\ ops' = ops \ {t}
    /\ sent' = IF t.out = "ok" THEN send(sent, t.s, "browser_ready")
               ELSE sendError(sent, t.s)
    /\ UNCHANGED <<status, ws, lastActivity, delivered, lastMsg, ctlVars, regVars,
                   phase, clockVars, finderVars, idVars>>

PhoneResultRequested(out) == <<"waiting_code", "code_requested">>
PhoneResult(out) ==
    IF out = "ok" THEN <<"waiting_code", "code_requested">>
    ELSE <<"error", "phone_error">>

CodeResultNoRetry(out) ==
    CASE out = "ok" -> <<"verified", "verification_success">>
      [] out = "pw" -> <<"waiting_password", "password_required">>
      [] OTHER -> <<"error", "verification_failed">>
CodeResultStaysProcessing(out) ==
    CASE out = "ok" -> <<"verified", "verification_success">>
      [] out = "pw" -> <<"waiting_password", "password_required">>
      [] OTHER -> <<"processing_code", "verification_failed">>
CodeResult(out) ==
    CASE out = "ok" -> <<"verified", "verification_success">>
      [] out = "pw" -> <<"waiting_password", "password_required">>
      [] OTHER -> <<"waiting_code", "verification_failed">>

PasswordResult(out) ==
    IF out = "ok" THEN <<"verified", "password_success">>
    ELSE <<"waiting_password", "password_failed">>

(* message: result.error || '<default>' *)
ResultText(t) ==
    IF t.out \in {"ok", "pw"} THEN ""
    ELSE OrDefault(t.msg,
           CASE t.op = "submitPhone" -> "Failed to submit phone"
             [] t.op = "submitCode" -> "Invalid code, try again"
             [] OTHER -> "Wrong password, please try again")

Resume(t, res) ==
    /\ ops' = ops \ {t}
    /\ status' = [status EXCEPT ![t.s] = res[1]]
    /\ sent' = sendText(sent, t.s, res[2], ResultText(t))
    /\ UNCHANGED <<ws, lastActivity, delivered, lastMsg, ctlVars, regVars, phase,
                   clockVars, finderVars, idVars>>

(* handlePhoneSubmission after `await this.automator.submitPhone(phone)` *)
handlePhoneSubmissionResume(t) ==
    Settled(t, "submitPhone") /\ Resume(t, PhoneResult(t.out))

(* handleCodeSubmission after `await this.automator.submitCode(code)` *)
handleCodeSubmissionResume(t) ==
    Settled(t, "submitCode") /\ Resume(t, CodeResult(t.out))

(* handlePasswordSubmission after `await this.automator.submitPassword` *)
handlePasswordSubmissionResume(t) ==
    Settled(t, "submitPassword") /\ Resume(t, PasswordResult(t.out))

(* ------------------- SessionManager: removeSession -------------------- *)
(* `const session = this.sessions.get(sessionId); if (session)` *)
RegisteredAlways(s) == TRUE
Registered(s) == s \in sessions

(* session.cleanup() -> automator.cleanup(), up to its first await *)
cleanup(s, caller) ==
    LET r == [s |-> s, caller |-> caller, pc |-> "settled", pg |-> 0] IN
    IF page[s] # 0 THEN [r EXCEPT !.pc = "closePage", !.pg = page[s]]
    ELSE IF browser[s] # 0 THEN [r EXCEPT !.pc = "closeBrowser", !.pg = browser[s]]
    ELSE r

(* cleanup() with nothing to close discards the strategy objects at once *)
StratAfter(s) == IF page[s] = 0 /\ browser[s] = 0 THEN 0 ELSE strat[s]

(* removeSession(id) called for every id in S, up to the first await *)
removeSession(S, caller) ==
    LET R == {s \in S : Registered(s)} IN
    /\ removals' = removals \cup {cleanup(s, caller) : s \in R}
    /\ removeCalls' = [s \in Ids |-> IF s \in S THEN removeCalls[s] + 1
                                     ELSE removeCalls[s]]
    /\ cleanupRuns' = [s \in Ids |-> IF s \in R THEN cleanupRuns[s] + 1
                                     ELSE cleanupRuns[s]]
    /\ strat' = [s \in Ids |-> IF s \in R THEN StratAfter(s) ELSE strat[s]]

(* the socket's 'close' event: the listener calls removeSession *)
wsClose(s) ==
    /\ Idle
    /\ ws[s] \in {"OPEN", "CLOSING"}
    /\ ws' = [ws EXCEPT ![s] = "CLOSED"]
    /\ removeSession({s}, "close")
    /\ UNCHANGED <<status, sent, lastActivity, delivered, lastMsg, ops, browser,
                   page, open, live, nlaunch, sessions, created, sweep, timer,
                   deletes, phase, clockVars, finderVars, idVars>>

(* automator.cleanup(): page.close() resolves; `this.page = null`, then    *)
(* `if (this.browser) await this.browser.close()`                          *)
closePageDone(r) ==
    /\ Idle /\ r \in removals /\ r.pc = "closePage"
    /\ live' = [live EXCEPT ![r.s] = @ \ {r.pg}]
    /\ page' = [page EXCEPT ![r.s] = 0]
    /\ IF browser[r.s] # 0
       THEN /\ removals' = (removals \ {r}) \cup
                   {[r EXCEPT !.pc = "closeBrowser", !.pg = browser[r.s]]}
            /\ UNCHANGED strat
       ELSE /\ removals' = (removals \ {r}) \cup
                   {[r EXCEPT !.pc = "settled", !.pg = 0]}
            /\ strat' = [strat EXCEPT ![r.s] = 0]
    /\ UNCHANGED <<sessVars, ops, browser, open, nlaunch, sessions, created,
                   sweep, timer, removeCalls, cleanupRuns, deletes, phase, clockVars, finderVars, idVars>>

(* automator.cleanup(): browser.close() resolves; `this.browser = null`    *)
(* and the strategy objects are discarded                                  *)
closeBrowserDone(r) ==
    /\ Idle /\ r \in removals /\ r.pc = "closeBrowser"
    /\ open' = [open EXCEPT ![r.s] = @ \ {r.pg}]
    /\ live' = [live EXCEPT ![r.s] = @ \ {r.pg}]
    /\ browser' = [browser EXCEPT ![r.s] = 0]
    /\ strat' = [strat EXCEPT ![r.s] = 0]
    /\ removals' = (removals \ {r}) \cup {[r EXCEPT !.pc = "settled", !.pg = 0]}
    /\ UNCHANGED <<sessVars, ops, page, nlaunch, sessions, created, sweep,
                   timer, removeCalls, cleanupRuns, deletes, phase, clockVars, finderVars, idVars>>

(* automator.cleanup(): closing a target that is already closed rejects;   *)
(* the catch logs it and the rest of the try block is skipped              *)
closeFailed(r) ==
    /\ Idle /\ r \in removals
    /\ \/ r.pc = "closePage" /\ r.pg \notin live[r.s]
       \/ r.pc = "closeBrowser" /\ r.pg \notin open[r.s]
    /\ removals' = (removals \ {r}) \cup {[r EXCEPT !.pc = "settled", !.pg = 0]}
    /\ UNCHANGED <<sessVars, ops, ctlVars, sessions, created, sweep, timer,
                   removeCalls, cleanupRuns, deletes, phase, clockVars, finderVars, idVars>>

(* removeSession after `await session.cleanup()`: sessions.delete(id);     *)
(* a sweep pass awaiting this call resumes                                 *)
removeSessionResume(r) ==
    /\ Alive /\ r \in removals /\ r.pc = "settled"
    /\ removals' = removals \ {r}
    /\ sessions' = sessions \ {r.s}
    /\ deletes' = [deletes EXCEPT ![r.s] = IF r.s \in sessions THEN @ + 1 ELSE @]
    /\ sweep' = IF r.caller = "sweep" THEN [sweep EXCEPT !.pc = "resume"]
                ELSE sweep
    /\ UNCHANGED <<sessVars, ops, ctlVars, created, timer, removeCalls,
                   cleanupRuns, phase, clockVars, finderVars, idVars>>

(* ---------------------- SessionManager: the sweep --------------------- *)
isExpiredInclusive(s) == now - lastActivity[s] >= Timeout
isExpired(s) == now - lastActivity[s] > Timeout

(* the timer fires: cleanupExpiredSessions scans the Map in insertion      *)
(* order; sweep.idle records the idle durations seen by the scan           *)
cleanupExpiredSessions ==
    /\ Idle /\ timer /\ sweep.pc = "idle"
    /\ LET expired == SortedSeq({s \in sessions : isExpired(s)}) IN
       sweep' = IF expired = <<>> THEN sweep
                ELSE [pc |-> "resume", list |-> expired,
                      idle |-> [s \in Ids |-> IF s \in sessions
                                               THEN now - lastActivity[s]
                                               ELSE 0]]
    /\ UNCHANGED <<sessVars, ops, ctlVars, sessions, created, removals, timer,
                   removeCalls, cleanupRuns, deletes, phase, clockVars, finderVars, idVars>>

(* the loop over expiredSessions: `await this.removeSession(sessionId)` *)
sweepResume ==
    /\ Alive /\ sweep.pc = "resume"
    /\ IF sweep.list = <<>>
       THEN /\ sweep' = [pc |-> "idle", list |-> <<>>, idle |-> <<>>]
            /\ UNCHANGED <<removals, removeCalls, cleanupRuns, strat>>
       ELSE /\ removeSession({Head(sweep.list)}, "sweep")
            /\ sweep' = [sweep EXCEPT
                           !.pc = IF Registered(Head(sweep.list)) THEN "wait"
                                  ELSE "resume",
                           !.list = Tail(@)]
    /\ UNCHANGED <<sessVars, ops, browser, page, open, live, nlaunch, sessions,
                   created, timer, deletes, phase, clockVars, finderVars, idVars>>

(* time passes: a millisecond, then the whole timeout, then milliseconds,  *)
(* so that idle durations just below, at and just above the timeout occur  *)
tick ==
    /\ Idle /\ ticks < MaxTicks
    /\ ticks' = ticks + 1
    /\ now' = now + (IF ticks = 1 THEN Timeout ELSE 1)
    /\ UNCHANGED <<sessVars, ops, ctlVars, regVars, phase, finderVars, idVars>>

(* ------------------------ server.js: shutdown ------------------------- *)
(* gracefulShutdown: ws.close() on every client, then shutdown():          *)
(* clearInterval and removeSession for every key, awaited together         *)
gracefulShutdown ==
    /\ Idle /\ phase = "running"
    /\ ws' = [s \in Ids |-> IF ws[s] = "OPEN" THEN "CLOSING" ELSE ws[s]]
    /\ timer' = FALSE
    /\ removeSession(sessions, "shutdown")
    /\ phase' = "awaiting"
    /\ UNCHANGED <<status, sent, lastActivity, delivered, lastMsg, ops, browser,
                   page, open, live, nlaunch, sessions, created, sweep,
                   deletes, clockVars, finderVars, idVars>>

(* `await Promise.all(promises)` resumes; process.exit(0) *)
shutdownReturn ==
    /\ phase = "awaiting" /\ ~ShutdownPending
    /\ phase' = "exited"
    /\ UNCHANGED <<sessVars, ops, ctlVars, regVars, clockVars, finderVars, idVars>>

(* ------------------- ElementFinder: the polling searches -------------- *)
(* One call of waitForElement or waitForEither.  The sets of locators have *)
(* MaxLocators entries; a "query" is page.$$ on one locator with the       *)
(* checks on the elements it returns.  Time is counted in check intervals: *)
(* a page call takes none or one, the sleep between passes one.            *)
Timeouts == {0, MaxTimeout}

QueryOutcomes ==
    {"miss",        \* no element, or none that is visible (and clickable)
     "hit",         \* an element that passes the checks
     "error",       \* page.$$ or element.evaluate rejects, not critical
     "critical",    \* page.$$ or element.evaluate rejects: detached Frame,
                    \* Execution context was destroyed, Target closed
     "criticalInCheck"}  \* the same rejection inside isElementVisible or
                         \* isElementClickable, whose catch returns false

(* an element that a query returns: it passes the requested checks        *)
(* ("qualifies"); a check is false ("fails"); every evaluate on it rejects *)
(* with an ordinary error ("stale") or with a critical one ("gone"); or    *)
(* its frame goes after the first evaluate, so that the checks reject with *)
(* a critical error ("detaches")                                           *)
ElementKinds == {"qualifies", "fails", "stale", "gone", "detaches"}

(* what page.$$ on one locator answers: it rejects, or a list of elements *)
QueryAnswers ==
    [q : {"throws", "critical"}, els : {<<>>}]
       \cup [q : {"list"}, els : UNION {[1..n -> ElementKinds] : n \in 0..MaxMatches}]

(* waitForElement evaluates a description of each element for the log     *)
(* before the checks; waitForElementForever and waitForEither do not      *)
InfoEvaluated(fn) == fn = "waitForElement"

(* `for (const element of elements)` from the i-th element on: the outcome *)
(* of the query and the index of the element that decided it.  The catches *)
(* of isElementVisible and isElementClickable turn a rejection into false. *)
RECURSIVE examineFrom(_, _, _)
examineFrom(fn, els, i) ==
    IF i > Len(els) THEN [outcome |-> "miss", el |-> 0]
    ELSE CASE InfoEvaluated(fn) /\ els[i] = "stale" -> [outcome |-> "error", el |-> i]
           [] InfoEvaluated(fn) /\ els[i] = "gone" -> [outcome |-> "critical", el |-> i]
           [] els[i] = "qualifies" -> [outcome |-> "hit", el |-> i]
           [] OTHER ->
                LET r == examineFrom(fn, els, i + 1) IN
                IF r.outcome = "miss" /\ els[i] \in {"gone", "detaches"}
                THEN [r EXCEPT !.outcome = "criticalInCheck"]
                ELSE r

(* the try block around one locator: page.$$ and the loop on its elements *)
examine(fn, answer) ==
    CASE answer.q = "throws" -> [outcome |-> "error", el |-> 0]
      [] answer.q = "critical" -> [outcome |-> "critical", el |-> 0]
      [] OTHER -> examineFrom(fn, answer.els, 1)

(* a critical rejection was raised while the locator was examined *)
critSeen(answer, x) ==
    \/ x.outcome \in {"critical", "criticalInCheck"}
    \/ \E j \in 1..x.el : answer.els[j] \in {"gone", "detaches"}

(* the locator's query returned an element that passes the checks and the *)
(* examination of the locator ended without returning an element          *)
passedOver(answer, x) ==
    x.outcome # "hit" /\ \E j \in DOMAIN answer.els : answer.els[j] = "qualifies"

(* `timeout > 0 && Date.now() - startTime > timeout` *)
TimedOutAlso0(timeout, elapsed) == elapsed > timeout
TimedOutAtLimit(timeout, elapsed) == timeout > 0 /\ elapsed >= timeout
TimedOut(timeout, elapsed) == timeout > 0 /\ elapsed > timeout

Ended(sr, result) == [sr EXCEPT !.pc = "done", !.result = result]

(* waitForElement(xpaths, {timeout}): timeout 0 is waitForElementForever *)
startSearch(fn, timeout) ==
    /\ search.pc = "idle"
    /\ search' =
         [NoSearch EXCEPT
            !.fn = IF fn = "waitForElement" /\ timeout = 0
                   THEN "waitForElementForever" ELSE fn,
            !.timeout = timeout,
            !.pc = IF fn = "waitForElement" /\ timeout # 0 THEN "query"
                   ELSE "alive"]
    /\ UNCHANGED <<sessVars, ops, ctlVars, regVars, phase, clockVars, idVars,
                   click, field>>

(* the query at (set, pos) did not end the search: the next locator, the   *)
(* second set, or the end of the pass (where waitForEither checks its      *)
(* timeout) and the sleep                                                  *)
afterQuery(sr) ==
    IF sr.pos < MaxLocators THEN [sr EXCEPT !.pos = @ + 1]
    ELSE IF sr.fn = "waitForEither" /\ sr.set = 1
         THEN [sr EXCEPT !.set = 2, !.pos = 1]
    ELSE IF sr.fn = "waitForEither" /\ TimedOut(sr.timeout, sr.elapsed)
         THEN Ended(sr, "TIMEOUT")
    ELSE [sr EXCEPT !.pc = "sleep"]

(* the catch around a locator's query in waitForElement and                *)
(* waitForElementForever rethrows a critical error; the one in             *)
(* waitForEither only logs                                                 *)
Rethrows(fn) == fn # "waitForEither"

(* the query on the current locator completes *)
queryDone(answer, d) ==
    /\ search.pc = "query"
    /\ LET x == examine(search.fn, answer)
           outcome == x.outcome
           sr == [search EXCEPT
                    !.elapsed = @ + d,
                    !.crit = @ \/ critSeen(answer, x),
                    !.passed = @ \/ passedOver(answer, x)]
       IN search' =
            CASE outcome = "hit" ->
                   [Ended(sr, IF sr.fn # "waitForEither" THEN "element"
                              ELSE IF sr.set = 1 THEN "condition1"
                              ELSE "condition2")
                      EXCEPT !.hit = <<sr.set, sr.pos>>, !.el = x.el]
              [] outcome = "critical" /\ Rethrows(sr.fn) -> Ended(sr, "critical")
              [] OTHER -> afterQuery(sr)
    /\ UNCHANGED <<sessVars, ops, ctlVars, regVars, phase, clockVars, idVars,
                   click, field>>

(* waitForElementForever / waitForEither: `await this.page.evaluate(() =>  *)
(* document.title)` at the start of a pass                                 *)
aliveDone(ok, d) ==
    /\ search.pc = "alive"
    /\ search' = IF ok THEN [search EXCEPT !.pc = "query", !.set = 1, !.pos = 1,
                                           !.elapsed = @ + d]
                 ELSE Ended([search EXCEPT !.elapsed = @ + d], "inactive")
    /\ UNCHANGED <<sessVars, ops, ctlVars, regVars, phase, clockVars, idVars,
                   click, field>>

(* `await setTimeout(checkInterval)` ends and the next pass starts;        *)
(* waitForElement checks its timeout at the start of the pass              *)
sleepDone ==
    /\ search.pc = "sleep" /\ search.pass < MaxPasses
    /\ LET sr == [search EXCEPT !.elapsed = @ + 1, !.pass = @ + 1,
                                !.passed = FALSE] IN
       search' = IF sr.fn = "waitForElement"
                 THEN IF TimedOut(sr.timeout, sr.elapsed)
                      THEN Ended(sr, "ELEMENT_NOT_FOUND")
                      ELSE [sr EXCEPT !.pc = "query", !.set = 1, !.pos = 1]
                 ELSE [sr EXCEPT !.pc = "alive"]
    /\ UNCHANGED <<sessVars, ops, ctlVars, regVars, phase, clockVars, idVars,
                   click, field>>

(* ------------------- ElementFinder: safeClick ------------------------- *)
(* searchConfig.retryAttempts and searchConfig.retryDelay (ms) *)
retryAttempts == 3
retryDelay == 500

(* safeClick(element) is called on the element a search returned          *)
(* (waitAndClick, clickSubmitButton): `for (let i = 0; i < retries; i++)`  *)
safeClick ==
    /\ search.pc = "done" /\ search.result = "element"
    /\ click.pc = "idle"
    /\ click' = IF 0 < retryAttempts THEN [NoClick EXCEPT !.pc = "click"]
                ELSE [NoClick EXCEPT !.pc = "done", !.result = "returned"]
    /\ UNCHANGED <<sessVars, ops, ctlVars, regVars, phase, clockVars, idVars,
                   search, field>>

(* `await element.click()` of attempt i resolves (ok) or rejects: return,  *)
(* or throw the error if this was the last attempt, or warn and wait       *)
clickDoneSwallowsLast(ok) ==
    /\ click.pc = "click"
    /\ LET c == [click EXCEPT !.attempts = @ + 1, !.clicked = ok] IN
       click' = IF ok \/ click.i = retryAttempts - 1
                THEN [c EXCEPT !.pc = "done", !.result = "returned"]
                ELSE [c EXCEPT !.pc = "backoff"]
    /\ UNCHANGED <<sessVars, ops, ctlVars, regVars, phase, clockVars, idVars,
                   search, field>>
clickDone(ok) ==
    /\ click.pc = "click"
    /\ LET c == [click EXCEPT !.attempts = @ + 1, !.clicked = ok] IN
       click' = IF ok THEN [c EXCEPT !.pc = "done", !.result = "returned"]
                ELSE IF click.i = retryAttempts - 1
                THEN [c EXCEPT !.pc = "done", !.result = "thrown",
                               !.err = c.attempts]
                ELSE [c EXCEPT !.pc = "backoff"]
    /\ UNCHANGED <<sessVars, ops, ctlVars, regVars, phase, clockVars, idVars,
                   search, field>>

(* `await setTimeout(searchConfig.retryDelay)` ends: i++ and the loop test *)
backoffDone ==
    /\ click.pc = "backoff"
    /\ LET c == [click EXCEPT !.i = @ + 1, !.waited = @ + retryDelay] IN
       click' = IF c.i < retryAttempts THEN [c EXCEPT !.pc = "click"]
                ELSE [c EXCEPT !.pc = "done", !.result = "returned"]
    /\ UNCHANGED <<sessVars, ops, ctlVars, regVars, phase, clockVars, idVars,
                   search, field>>

(* ------------------- InputStrategy: inputPhoneNumber ------------------ *)
(* Strings are sequences of characters.  The phone input stores what is    *)
(* typed verbatim, at the end of its value.                                *)
Chars == {"+", "7", "9", " "}
FieldValues == UNION {[1..n -> Chars] : n \in 0..MaxField}
Phones == {p \in [1..MaxField -> Chars \ {" "}] : p[1] = "+"}

(* String.prototype.trim *)
RECURSIVE trimStart(_)
trimStart(v) == IF v # <<>> /\ Head(v) = " " THEN trimStart(Tail(v)) ELSE v
RECURSIVE trimEnd(_)
trimEnd(v) ==
    IF v # <<>> /\ v[Len(v)] = " " THEN trimEnd(SubSeq(v, 1, Len(v) - 1)) ELSE v
trimChars(v) == trimEnd(trimStart(v))

(* String.prototype.startsWith and substring(n) *)
startsWith(text, prefix) ==
    Len(prefix) <= Len(text) /\ SubSeq(text, 1, Len(prefix)) = prefix
substring(text, n) == SubSeq(text, n + 1, Len(text))

(* `if (currentValue && phone.startsWith(currentValue.trim()))` *)
Appends(currentValue, phone) ==
    currentValue # <<>> /\ startsWith(phone, trimChars(currentValue))

(* the page puts a value in the phone input (country code, earlier entry) *)
pageSetsField(v) ==
    /\ field.pc = "idle"
    /\ field' = [field EXCEPT !.value = v]
    /\ UNCHANGED <<sessVars, ops, ctlVars, regVars, phase, clockVars, idVars,
                   search, click>>

(* inputPhoneNumber(phone); ok: no page call rejects *)
inputPhoneNumber(phone, ok) ==
    /\ field.pc = "idle"
    /\ LET currentValue == field.value
           f == [field EXCEPT !.phone = phone, !.before = currentValue] IN
       field' =
         IF ~ok THEN [f EXCEPT !.pc = "thrown"]
         ELSE IF Appends(currentValue, phone)
         THEN LET valueToType == substring(phone, Len(trimChars(currentValue))) IN
              [f EXCEPT !.pc = "returned", !.typed = valueToType,
                        !.value = currentValue \o valueToType]
         ELSE [f EXCEPT !.pc = "returned", !.typed = phone, !.cleared = TRUE,
                        !.value = phone]
    /\ UNCHANGED <<sessVars, ops, ctlVars, regVars, phase, clockVars, idVars,
                   search, click>>

(* ------------------- SessionManager: session ids ---------------------- *)
(* Elsewhere in this module a session is named by its creation rank, which *)
(* takes the ids of different sessions to be different.  Here the id is    *)
(* the string generateSessionId builds and the registry is the Map keyed   *)
(* by it.  Strings are sequences of base-36 digits.                        *)

(* Number.prototype.toString(36) of a non-negative integer *)
RECURSIVE toString36(_)
toString36(n) == IF n < 36 THEN <<n>> ELSE toString36(n \div 36) \o <<n % 36>>

(* `Math.random().toString(36).substr(2, 9)`: what the random source may   *)
(* give, here one digit out of MaxRandom                                   *)
RandomParts == {<<d>> : d \in 1..MaxRandom}

(* `Math.random().toString(36).substr(2, 9) + Date.now().toString(36)` *)
generateSessionId(rnd, t) == rnd \o toString36(t)

(* Map.prototype.set: an entry with the same key is replaced *)
MapSet(map, key, value) == {e \in map : e[1] # key} \cup {<<key, value>>}

(* createSession: `const sessionId = this.generateSessionId()`, the new    *)
(* session, `this.sessions.set(sessionId, session)`                        *)
createSession(rnd) ==
    /\ made < MaxCreates
    /\ made' = made + 1
    /\ registry' = MapSet(registry, generateSessionId(rnd, now), made + 1)
    /\ UNCHANGED <<sessVars, ops, ctlVars, regVars, phase, clockVars,
                   finderVars>>

(* --------------------------- specifications --------------------------- *)
(* browser I/O and continuations of the background initialisation *)
InitializeStep ==
    \E t \in ops :
        \/ launchDone(t)
        \/ pagesDone(t)
        \/ uaDone(t)
        \/ prepareDone(t)
        \/ initializeFailed(t)
        \/ initializeBrowserResume(t)

(* browser I/O and continuations of the submissions *)
SubmissionStep ==
    \E t \in ops :
        \/ checkFound(t)
        \/ checkMissing(t)
        \/ driveDone(t)
        \/ handlePhoneSubmissionResume(t)
        \/ handleCodeSubmissionResume(t)
        \/ handlePasswordSubmissionResume(t)

RemovalStep ==
    \E r \in removals :
        \/ closePageDone(r)
        \/ closeBrowserDone(r)
        \/ closeFailed(r)
        \/ removeSessionResume(r)

(* handleMessage: the switch on data.type *)
handleMessage(s) ==
    \/ handlePhoneSubmission(s)
    \/ handleCodeSubmission(s)
    \/ handlePasswordSubmission(s)
    \/ handleUserReturnedToPhone(s)
    \/ handlePing(s)
    \/ handleUnknown(s)

(* One connection with the whole message protocol and its controller; the  *)
(* process may start shutting down, which puts the socket in CLOSING while *)
(* payloads of the client still arrive.  The run is observed up to the     *)
(* point where a page or browser close would complete.                     *)
Next ==
    \/ handleConnection(1)
    \/ handleMessage(1)
    \/ invalidJson(1)
    \/ InitializeStep
    \/ SubmissionStep
    \/ \E r \in removals : removeSessionResume(r)
    \/ gracefulShutdown
    \/ shutdownReturn

Spec == Init /\ [][Next]_vars

(* One connection and the whole life of its controller: the background     *)
(* initialisation, submit_phone payloads, the socket closing, cleanup and  *)
(* shutdown.                                                               *)
NextController ==
    \/ handleConnection(1)
    \/ delivered < MaxPhones /\ handlePhoneSubmission(1)
    \/ wsClose(1)
    \/ InitializeStep
    \/ SubmissionStep
    \/ RemovalStep
    \/ gracefulShutdown
    \/ shutdownReturn

SpecController == Init /\ [][NextController]_vars

(* The registry with MaxSessions connections: creation, sockets closing    *)
(* and shutdown, with every removal's cleanup.                             *)
NextRegistry ==
    \/ \E s \in Ids : handleConnection(s)
    \/ \E s \in Ids : wsClose(s)
    \/ InitializeStep
    \/ RemovalStep
    \/ gracefulShutdown
    \/ shutdownReturn

SpecRegistry == Init /\ [][NextRegistry]_vars

(* The registry on a clock: creation, activity (ping), sockets closing and *)
(* the periodic sweep.                                                     *)
NextSweep ==
    \/ \E s \in Ids : handleConnection(s)
    \/ \E s \in Ids : delivered < MaxPings /\ handlePing(s)
    \/ \E s \in Ids : wsClose(s)
    \/ InitializeStep
    \/ RemovalStep
    \/ cleanupExpiredSessions
    \/ sweepResume
    \/ tick

SpecSweep == Init /\ [][NextSweep]_vars

(* The registry with its sweep timer up to process exit: creation, sockets *)
(* closing, the periodic sweep and the graceful shutdown.                  *)
NextShutdown ==
    \/ \E s \in Ids : handleConnection(s)
    \/ \E s \in Ids : wsClose(s)
    \/ InitializeStep
    \/ RemovalStep
    \/ cleanupExpiredSessions
    \/ sweepResume
    \/ tick
    \/ gracefulShutdown
    \/ shutdownReturn

SpecShutdown == Init /\ [][NextShutdown]_vars

(* One connection and its three submissions up to process exit, with the  *)
(* cleanup of the controller by the shutdown: operations also run on a     *)
(* page that is missing or closed.                                         *)
NextSession ==
    \/ handleConnection(1)
    \/ delivered < MaxSubmits /\ handlePhoneSubmission(1)
    \/ delivered < MaxSubmits /\ handleCodeSubmission(1)
    \/ delivered < MaxSubmits /\ handlePasswordSubmission(1)
    \/ InitializeStep
    \/ SubmissionStep
    \/ RemovalStep
    \/ gracefulShutdown
    \/ shutdownReturn

SpecSession == Init /\ [][NextSession]_vars

(* One search of the ElementFinder on a page that answers each query in   *)
(* any way.                                                                *)
NextFinder ==
    \/ \E fn \in {"waitForElement", "waitForEither"} : \E timeout \in Timeouts :
          startSearch(fn, timeout)
    \/ \E answer \in QueryAnswers : \E d \in {0, 1} : queryDone(answer, d)
    \/ \E ok \in BOOLEAN : \E d \in {0, 1} : aliveDone(ok, d)
    \/ sleepDone
    \/ safeClick
    \/ \E ok \in BOOLEAN : clickDone(ok)
    \/ backoffDone

SpecFinder == Init /\ [][NextFinder]_vars

(* The phone input with any value in it, and one inputPhoneNumber.         *)
NextInput ==
    \/ \E v \in FieldValues : pageSetsField(v)
    \/ \E phone \in Phones : \E ok \in BOOLEAN : inputPhoneNumber(phone, ok)

SpecInput == Init /\ [][NextInput]_vars

(* Sessions created one after another, in the same millisecond or not.     *)
NextIds ==
    \/ \E rnd \in RandomParts : createSession(rnd)
    \/ tick

SpecIds == Init /\ [][NextIds]_vars

(* One connection, one submit_phone and the socket closing, with what the  *)
(* event loop and the browser are bound to do.  A call on a page that has  *)
(* been closed rejects (the probe and the queries of a poll throw), so a   *)
(* poll on a closed page ends; on a page that is still open an unbounded   *)
(* poll (timeout 0) may go on for ever.                                    *)
PollAborted(t) ==
    /\ t.pc \in {"prepare", "drive"} /\ t.pg \notin live[t.s]
    /\ initializeFailed(t) \/ driveDone(t)

NextPoll ==
    \/ handleConnection(1)
    \/ delivered < 1 /\ handlePhoneSubmission(1)
    \/ wsClose(1)
    \/ InitializeStep
    \/ SubmissionStep
    \/ RemovalStep

(* continuations of settled promises run; launch, pages() and setUserAgent *)
(* resolve or reject; the phone-field check is bounded (1000 ms); the      *)
(* closes issued by cleanup() settle                                       *)
PollFairness ==
    /\ WF_vars(\E t \in ops : PollAborted(t))
    /\ WF_vars(\E t \in ops : \/ initializeBrowserResume(t)
                              \/ handlePhoneSubmissionResume(t))
    /\ WF_vars(\E t \in ops : /\ t.pc \in {"launch", "pages", "ua"}
                              /\ \/ launchDone(t) \/ pagesDone(t)
                                 \/ uaDone(t) \/ initializeFailed(t))
    /\ WF_vars(\E t \in ops : checkFound(t) \/ checkMissing(t))
    /\ WF_vars(RemovalStep)

SpecPoll == Init /\ [][NextPoll]_vars /\ PollFairness

(* ------------------------------ claims -------------------------------- *)
InFlight(s) == {t \in ops : t.s = s /\ t.op \in ControllerOps /\ t.pc # "settled"}

(* C1: at most one of submitPhone, submitCode, submitPassword is in flight *)
(* on a session's controller at any time.                                  *)
C1_OneOperationInFlight ==
    \A s \in Ids : Cardinality(InFlight(s)) <= 1

(* C2: the handling of a payload of a session does not begin while the     *)
(* handling of an earlier payload of that session, with its awaited        *)
(* controller operation, is unresolved.                                    *)
C2_SequentialHandling ==
    [][delivered' > delivered =>
         ~\E t \in ops : t.s = lastMsg'.s /\ t.op \in ControllerOps]_vars

TransitionTable ==
    {<<"idle", "processing_phone">>, <<"error", "processing_phone">>,
     <<"processing_phone", "waiting_code">>, <<"processing_phone", "error">>,
     <<"waiting_code", "processing_code">>,
     <<"processing_code", "verified">>,
     <<"processing_code", "waiting_password">>,
     <<"processing_code", "waiting_code">>,
     <<"waiting_password", "processing_password">>,
     <<"processing_password", "verified">>,
     <<"processing_password", "waiting_password">>,
     <<"waiting_code", "idle">>, <<"processing_code", "idle">>}

(* C3: every change of a session's status is a transition of the table.    *)
C3_TableTransitionsOnly ==
    [][\A s \in Ids : status'[s] # status[s] =>
           <<status[s], status'[s]>> \in TransitionTable]_vars

(* the payloads C4 is about: a submission whose status guard fails, or a   *)
(* type handleMessage does not know                                        *)
Rejected(type, st) ==
    \/ type = "submit_phone" /\ st \notin {"idle", "error"}
    \/ type = "submit_code" /\ st # "waiting_code"
    \/ type = "submit_password" /\ st # "waiting_password"
    \/ type = "unknown"

RejectedNow == delivered' > delivered
               /\ Rejected(lastMsg'.type, status[lastMsg'.s])

OneMore(s, m) == sent'[s].n = sent[s].n + 1 /\ sent'[s].last = m

(* C4 as stated: a rejected payload produces exactly one `error` reply,    *)
(* leaves the status unchanged and causes no controller call.              *)
C4_RejectedRepliesOnce ==
    [][RejectedNow => /\ OneMore(lastMsg'.s, "error")
                      /\ status' = status
                      /\ ops' = ops]_vars

(* C4 amended: a rejected payload leaves the status unchanged and causes   *)
(* no controller call; it produces exactly one `error` reply when the      *)
(* socket is OPEN and no reply at all when it is not.                      *)
C4_RejectedRepliesOnceIfOpen ==
    [][RejectedNow => /\ IF ws[lastMsg'.s] = "OPEN"
                         THEN OneMore(lastMsg'.s, "error")
                         ELSE sent' = sent
                      /\ status' = status
                      /\ ops' = ops]_vars

C4_Witness ==
    /\ lastMsg = [s |-> 1, type |-> "submit_password"]
    /\ status[1] = "processing_code"
    /\ sent[1].last = "error"
    /\ ws[1] = "OPEN"

(* C5: for every session id the controller cleanup is run exactly once and *)
(* the registry entry is deleted exactly once, whatever removeSession      *)
(* calls overlap.                                                          *)
C5_CleanupExactlyOnce ==
    \A s \in Ids :
        /\ cleanupRuns[s] <= 1 /\ deletes[s] <= 1
        /\ (s \in created /\ s \notin sessions) =>
               (cleanupRuns[s] = 1 /\ deletes[s] = 1)

(* C6: a removeSession call on an id that is not in the registry (its      *)
(* removal has completed) runs no cleanup, changes nothing in the registry *)
(* or the controller, and starts nothing that could fail.                  *)
C6_RemoveIdempotent ==
    [][\A s \in Ids :
          (removeCalls'[s] > removeCalls[s] /\ s \notin sessions) =>
              /\ cleanupRuns' = cleanupRuns
              /\ deletes' = deletes
              /\ sessions' = sessions
              /\ removals' = removals
              /\ <<browser, page, strat, open, live>>' =
                     <<browser, page, strat, open, live>>]_vars

C6_Witness ==
    \E s \in Ids :
        /\ s \in created /\ s \notin sessions
        /\ removeCalls[s] = 2 /\ cleanupRuns[s] = 1 /\ deletes[s] = 1
        /\ ~\E r \in removals : r.s = s

(* C7: when graceful shutdown has completed, no browser launched by any    *)
(* session's controller is still open.                                     *)
C7_NoBrowserAtExit ==
    phase = "exited" => \A s \in Ids : open[s] = {}

(* C8: a controller never has more than one browser launched and not yet   *)
(* closed.                                                                 *)
C8_AtMostOneBrowser ==
    \A s \in Ids : Cardinality(open[s]) <= 1

(* C9: no two in-flight operations of a controller, the background         *)
(* initialize() included, are awaiting calls on the same page.             *)
C9_ExclusivePage ==
    \A t, u \in ops :
        (t # u /\ t.s = u.s /\ t.pc \in PagePcs /\ u.pc \in PagePcs) =>
            t.pg # u.pg

Range(q) == {q[i] : i \in DOMAIN q}

SweepRemoving == {r.s : r \in {x \in removals : x.caller = "sweep"}}

(* C10: a sweep pass removes exactly the sessions whose idle duration at   *)
(* its scan exceeds the timeout: it calls removeSession for no session     *)
(* idle for at most the timeout, and when it ends every session that was   *)
(* registered and idle for longer at the scan is out of the registry.      *)
C10_SweepIffExpired ==
    /\ [](sweep.pc # "idle" =>
            /\ \A s \in SweepRemoving \cup Range(sweep.list) :
                   sweep.idle[s] > Timeout
            /\ \A s \in Ids : sweep.idle[s] > Timeout =>
                   \/ s \in SweepRemoving \cup Range(sweep.list)
                   \/ s \notin sessions)
    /\ [](sweep.pc = "idle" => SweepRemoving = {})
    /\ [][(sweep.pc = "idle" /\ sweep'.pc # "idle") =>
             \A s \in sessions :
                 (s \in Range(sweep'.list)) <=> (now - lastActivity[s] > Timeout)]_vars

C10_Witness ==
    /\ sweep.pc = "resume" /\ sweep.list = <<>>
    /\ sweep.idle[1] > Timeout /\ 1 \notin sessions
    /\ sweep.idle[2] = Timeout /\ 2 \in sessions

(* the sweep pass calls removeSession for s, or a removal it awaits deletes *)
(* the entry of s                                                          *)
SweepActsOn(s) ==
    \/ \E r \in removals' \ removals : r.s = s /\ r.caller = "sweep"
    \/ /\ s \in sessions /\ s \notin sessions'
       /\ \E r \in removals \ removals' : r.s = s /\ r.caller = "sweep"

(* C11: every well-formed payload sets lastActivity to the current time,   *)
(* and the sweep neither starts removing nor deletes a session at a moment *)
(* when now - lastActivity is at most the timeout, also when the payload   *)
(* arrives between the scan of a pass and its removals.                    *)
C11_ActiveNeverSwept ==
    /\ [][(delivered' > delivered /\ lastMsg'.type # "malformed") =>
             lastActivity'[lastMsg'.s] = now]_vars
    /\ [][\A s \in Ids : SweepActsOn(s) => now - lastActivity[s] > Timeout]_vars

(* C12: shutdown() disarms the sweep timer, so that no pass starts after   *)
(* it; it calls removeSession for every registered session, does not       *)
(* return while one of those calls is unfinished, each of them ends with   *)
(* the entry deleted (also when the controller cleanup failed), and at the *)
(* return the registry is empty.                                           *)
C12_ShutdownRemovesAll ==
    /\ [](phase # "running" => ~timer)
    /\ [][(sweep.pc = "idle" /\ sweep'.pc # "idle") => phase = "running"]_vars
    /\ [][(phase = "running" /\ phase' = "awaiting") =>
             \A s \in sessions :
                 \E r \in removals' : r.s = s /\ r.caller = "shutdown"]_vars
    /\ [][\A r \in removals \ removals' :
             (r.caller = "shutdown" /\ r.pc = "settled") => r.s \notin sessions']_vars
    /\ [][phase' = "exited" =>
             /\ ~\E r \in removals' : r.caller = "shutdown"
             /\ sessions' = {}]_vars

C12_Witness ==
    /\ phase = "exited" /\ sessions = {} /\ created = Ids
    /\ \E s \in Ids : cleanupRuns[s] = 2 /\ deletes[s] = 1
    /\ \E s \in Ids : cleanupRuns[s] = 1 /\ deletes[s] = 1 /\ removeCalls[s] = 1

(* C13: submitPhone, submitCode and submitPassword never raise to the      *)
(* Session: whatever the page does, a missing or closed page included, the *)
(* awaited operation resolves with success, with a failure carrying a      *)
(* message, or with the escalation, and only submitCode escalates.         *)
C13_TypedOutcomesOnly ==
    /\ \A op \in ControllerOps : \A gone \in BOOLEAN :
         \A r \in Results[op][gone] :
            /\ r.out \in {"ok", "fail", "pw"}
            /\ r.out = "pw" => op = "submitCode"
            /\ r.out \in {"ok", "pw"} => r.msg = ""
            /\ gone => r.out = "fail" /\ r.msg # ""
    /\ \A t \in ops : (t.op \in ControllerOps /\ t.pc = "settled") =>
         /\ t.out \in {"ok", "fail", "pw"}
         /\ t.out = "pw" => t.op = "submitCode"

C13_Witness ==
    \E t \in ops :
        /\ t.op = "submitCode" /\ t.pc = "settled" /\ t.out = "fail"
        /\ t.msg = ExceptionMessage /\ page[t.s] = 0 /\ strat[t.s] # 0

(* the failures C14 is about, as steps: a rejected or unknown payload, a   *)
(* malformed one, a controller operation that returned a failure, a        *)
(* background initialisation that failed; each with the reply it calls for *)
FailureReply(s, m) ==
    \/ /\ RejectedNow /\ lastMsg'.s = s /\ m = "error"
    \/ /\ delivered' > delivered /\ lastMsg' = [s |-> s, type |-> "malformed"]
       /\ m = "error"
    \/ \E t \in ops \ ops' :
          /\ t.s = s /\ t.pc = "settled" /\ t.out = "fail"
          /\ m = CASE t.op = "submitPhone" -> "phone_error"
                   [] t.op = "submitCode" -> "verification_failed"
                   [] t.op = "submitPassword" -> "password_failed"
                   [] OTHER -> "error"

PhoneAccepted(s) ==
    /\ delivered' > delivered
    /\ lastMsg' = [s |-> s, type |-> "submit_phone"]
    /\ status[s] \in {"idle", "error"}

(* C17: an accepted submit_phone sends phone_processing and starts one     *)
(* submitPhone call; the result of a submitPhone call is sent only by the  *)
(* continuation of a call started that way, which sends exactly one of     *)
(* code_requested (status waiting_code) and phone_error (status error);    *)
(* each send reaches the client if the socket is OPEN.                     *)
C17_PhoneProcessingThenResult ==
    /\ [][\A s \in Ids : PhoneAccepted(s) =>
            /\ status'[s] = "processing_phone"
            /\ ws[s] = "OPEN" => OneMore(s, "phone_processing")
            /\ \E t \in ops' : /\ t.s = s /\ t.op = "submitPhone"
                               /\ ~\E u \in ops : u.s = s /\ u.n = t.n]_vars
    /\ [][\A t \in ops' : (t.op = "submitPhone"
                           /\ ~\E u \in ops : u.s = t.s /\ u.n = t.n) =>
              PhoneAccepted(t.s)]_vars
    /\ [][\A s \in Ids : (sent'[s] # sent[s]
                          /\ sent'[s].last \in {"code_requested", "phone_error"}) =>
              \E t \in ops \ ops' :
                  /\ t.s = s /\ t.op = "submitPhone" /\ t.pc = "settled"
                  /\ OneMore(s, sent'[s].last)]_vars
    /\ [][\A t \in ops \ ops' : (t.op = "submitPhone" /\ t.pc = "settled") =>
              /\ ~\E u \in ops' : u.s = t.s /\ u.n = t.n
              /\ \/ /\ t.out = "ok" /\ status'[t.s] = "waiting_code"
                    /\ ws[t.s] = "OPEN" => OneMore(t.s, "code_requested")
                 \/ /\ t.out # "ok" /\ status'[t.s] = "error"
                    /\ ws[t.s] = "OPEN" => OneMore(t.s, "phone_error")]_vars

C17_Witness ==
    /\ status[1] = "waiting_code" /\ ws[1] = "OPEN"
    /\ sent[1].last = "code_requested" /\ delivered = 2
    /\ lastMsg.type = "submit_phone"

(* the page behaviours of C18: the phone number is typed and the submit    *)
(* control is found with a text that contains BANNED                       *)
Banned(b) ==
    /\ b.input = "ok" /\ b.button = "found"
    /\ includes(b.buttonText, "BANNED")

(* the continuation of a submitPhone call that returned the failure msg *)
PhoneFailure(t, msg) ==
    /\ t \in ops \ ops' /\ t.op = "submitPhone" /\ t.pc = "settled"
    /\ t.out = "fail" /\ t.msg = msg

PasswordFieldExposed(b) ==
    /\ b.input = "ok"
    /\ \/ b.early = "password"
       \/ /\ b.early = "none" /\ b.codeInput = "present"
          /\ b.wait = "password_required"

PasswordErrorShown(b) ==
    /\ b.field = "found" /\ b.submit # "throws"
    /\ b.wait = "error" /\ b.clear = "ok"
    /\ trim(b.label) \notin {"", "Password"}

C15_CriticalStopsSearch ==
    search.crit => /\ search.pc = "done"
                   /\ search.result \in {"critical", "inactive"}

(* C16: in waitForEither a locator of the first set that matches a visible *)
(* element ends the search with condition1 and that element, whatever time *)
(* has elapsed; TIMEOUT is the result only of a search in which no locator *)
(* matched, and never of a search with timeout 0.                          *)
C16_FirstSetWins ==
    /\ [][(search.fn = "waitForEither" /\ search.pc = "query" /\ search.set = 1
           /\ search'.hit # <<>>) =>
             /\ search'.pc = "done" /\ search'.result = "condition1"
             /\ search'.hit = <<1, search.pos>>]_vars
    /\ [](search.result = "TIMEOUT" =>
             /\ search.fn = "waitForEither" /\ search.hit = <<>>
             /\ search.timeout > 0 /\ search.elapsed > search.timeout)

C16_Witness ==
    /\ search.fn = "waitForEither" /\ search.result = "condition1"
    /\ search.hit = <<1, MaxLocators>> /\ search.pass = 2
    /\ search.timeout > 0 /\ search.elapsed > search.timeout

(* the page behaviours of C21: the code is entered, no password field is    *)
(* seen, and the bounded wait ends on an error label of the code field,    *)
(* which can then be cleared                                               *)
CodeErrorShown(b) ==
    /\ b.input = "ok" /\ b.early = "none" /\ b.codeInput = "present"
    /\ b.wait = "error" /\ b.clear = "ok"

Received(s) == delivered' > delivered /\ lastMsg'.s = s

(* the frame of C22: a payload that does not parse leaves the session alone *)
MalformedUntouched(s) ==
    /\ status'[s] = status[s]
    /\ lastActivity'[s] = lastActivity[s]
    /\ ops' = ops

(* C22 (as stated): a payload that does not parse is answered with exactly *)
(* one error reply and leaves status, lastActivity and the controller      *)
(* alone; every payload that parses reaches handleMessage.                 *)
C22_MalformedRepliesOnce ==
    [][\A s \in Ids : Received(s) =>
          IF lastMsg'.type = "malformed"
          THEN OneMore(s, "error") /\ MalformedUntouched(s)
          ELSE lastActivity'[s] = now]_vars

(* C22 (amended): the error reply is sent when the socket is OPEN and      *)
(* dropped otherwise.                                                      *)
C22_MalformedRepliesOnceIfOpen ==
    [][\A s \in Ids : Received(s) =>
          IF lastMsg'.type = "malformed"
          THEN /\ MalformedUntouched(s)
               /\ IF ws[s] = "OPEN" THEN OneMore(s, "error")
                  ELSE sent'[s] = sent[s]
          ELSE lastActivity'[s] = now]_vars

C22_Witness ==
    /\ lastMsg = [s |-> 1, type |-> "malformed"]
    /\ sent[1].last = "error" /\ status[1] = "processing_code"
    /\ \E t \in ops : t.op = "submitCode" /\ t.pc = "drive"

C24_ReturnRejected ==
    [][\A s \in Ids : (Received(s) /\ lastMsg'.type = "user_returned_to_phone"
                       /\ status[s] \notin {"waiting_code", "processing_code"}) =>
          /\ status'[s] = status[s]
          /\ ws[s] = "OPEN" => OneMore(s, "error")]_vars

(* C25 (as stated): a ping in any status is answered with exactly one pong, *)
(* makes no controller call and leaves the status unchanged, also while a  *)
(* controller operation of the session is in flight.                       *)
C25_PingPong ==
    [][\A s \in Ids : (Received(s) /\ lastMsg'.type = "ping") =>
          /\ OneMore(s, "pong")
          /\ status'[s] = status[s]
          /\ ops' = ops]_vars

(* C25 (amended): the pong is sent when the socket is OPEN and dropped     *)
(* otherwise.                                                              *)
C25_PingPongIfOpen ==
    [][\A s \in Ids : (Received(s) /\ lastMsg'.type = "ping") =>
          /\ IF ws[s] = "OPEN" THEN OneMore(s, "pong") ELSE sent'[s] = sent[s]
          /\ status'[s] = status[s]
          /\ ops' = ops]_vars

C25_Witness ==
    /\ lastMsg = [s |-> 1, type |-> "ping"]
    /\ sent[1].last = "pong" /\ status[1] = "processing_password"
    /\ \E t \in ops : t.op = "submitPassword" /\ t.pc = "drive"

(* C27: waitForElement with a timeout T > 0 fails with ELEMENT_NOT_FOUND at  *)
(* the first pass that starts more than T after the call, and only then;   *)
(* with timeout 0 the search never fails with a timeout: it goes on with   *)
(* the next pass after every sleep and ends only with an element, on a     *)
(* page that is no longer active, or on a critical error.                  *)
C27_TimeoutOnlyAfterT ==
    /\ [](search.result = "ELEMENT_NOT_FOUND" =>
             /\ search.fn = "waitForElement"
             /\ search.timeout > 0 /\ search.elapsed > search.timeout)
    /\ [][(search.fn = "waitForElement" /\ search.pc = "sleep"
           /\ search' # search) =>
             IF search'.elapsed > search.timeout
             THEN search'.pc = "done" /\ search'.result = "ELEMENT_NOT_FOUND"
             ELSE search'.pc = "query"]_vars
    /\ [](search.fn = "waitForElementForever" =>
             /\ search.timeout = 0
             /\ search.result \in {"none", "element", "inactive", "critical"})
    /\ [][(search.fn = "waitForElementForever" /\ search.pc = "sleep"
           /\ search' # search) => search'.pc = "alive"]_vars

C27_Witness ==
    /\ search.fn = "waitForElement" /\ search.result = "ELEMENT_NOT_FOUND"
    /\ search.timeout = MaxTimeout /\ search.elapsed = MaxTimeout + 1
    /\ search.pass > 1

(* the cleanup r was awaiting page.close(), which has just rejected *)
PageCloseFailed(r) ==
    /\ r \in removals /\ r.pc = "closePage" /\ r \notin removals'
    /\ r.pg \notin live[r.s] /\ live' = live

(* C29: when closing the page fails, the same cleanup still attempts to    *)
(* close the browser it holds and discards its page, browser and strategy  *)
(* references; the cleanup returns to its caller without raising.          *)
C29_CleanupStepsIndependent ==
    [][\A r \in removals : PageCloseFailed(r) =>
          /\ page'[r.s] = 0
          /\ IF browser[r.s] # 0
             THEN [r EXCEPT !.pc = "closeBrowser", !.pg = browser[r.s]]
                      \in removals'
             ELSE /\ strat'[r.s] = 0
                  /\ [r EXCEPT !.pc = "settled", !.pg = 0] \in removals']_vars

(* the puppeteer.launch awaited by the background initialize() of task t   *)
(* has just rejected                                                       *)
BackgroundLaunchFailed(t) ==
    /\ t \in ops /\ t.op = "initializeBrowser" /\ t.pc = "launch"
    /\ Fail(t) \in ops' /\ t \notin ops'

(* C30: when the launch of the background initialize() fails the status    *)
(* is not moved from idle and the controller holds no browser; the         *)
(* continuation sends one error (on an open socket) and changes neither;   *)
(* and a submit_phone accepted while the controller holds no browser runs  *)
(* initialize(), from the launch on, before the check of the phone field.  *)
C30_LaunchFailureRetried ==
    /\ [][\A t \in ops : BackgroundLaunchFailed(t) =>
            /\ status[t.s] = "idle" => status'[t.s] = "idle"
            /\ browser'[t.s] = 0]_vars
    /\ [][\A t \in ops \ ops' : (t.op = "initializeBrowser" /\ t.pc = "settled"
                                 /\ t.out = "fail") =>
            /\ status'[t.s] = status[t.s]
            /\ browser'[t.s] = browser[t.s]
            /\ ws[t.s] = "OPEN" => OneMore(t.s, "error")]_vars
    /\ [][\A s \in Ids : (Received(s) /\ lastMsg'.type = "submit_phone"
                          /\ PhoneGuard(status[s]) /\ browser[s] = 0) =>
            \E t \in ops' \ ops : /\ t.s = s /\ t.op = "submitPhone"
                                  /\ t.pc = "launch" /\ t.ret = "check"]_vars

(* task n of session 1 is inside an unbounded poll: the login-button and   *)
(* phone-field waits of initialize(), the waitForEither of submitPhone     *)
PollBlocked(n) ==
    \E t \in ops : t.s = 1 /\ t.n = n /\ t.pc \in {"prepare", "drive"}

TaskEnded(n) == ~ \E t \in ops : t.s = 1 /\ t.n = n

(* cleanup() has closed the page and the browser the controller held *)
Destroyed(s) ==
    /\ \E b \in 1..nlaunch[s] : b \notin open[s]
    /\ browser[s] = 0 /\ page[s] = 0

(* C28: once cleanup() has closed the controller's page and browser, every *)
(* operation of the session that is inside an unbounded poll eventually    *)
(* ends.                                                                   *)
C28_PollEndsAfterCleanup ==
    \A n \in 0..2 : (PollBlocked(n) /\ Destroyed(1)) ~> TaskEnded(n)

(* C26: createSession always adds a new entry: the id it generates is not  *)
(* a key of the registry, the registry grows by one, and every entry it    *)
(* had is still there.                                                     *)
C26_CreateAddsNew ==
    [][made' = made + 1 =>
          /\ Cardinality(registry') = Cardinality(registry) + 1
          /\ registry \subseteq registry'
          /\ \A e \in registry' : e[2] = made + 1 =>
                 \A f \in registry : f[1] # e[1]]_vars

(* C38: the first payload sent on a session is `connected`; browser_ready  *)
(* is sent only by the continuation of the session's background            *)
(* initialize() when that call succeeded, hence after `connected`; that    *)
(* call is started only by the creation of the session, so browser_ready   *)
(* is sent at most once.                                                   *)
C38_ConnectedFirst ==
    /\ [][\A s \in Ids : (sent[s].n = 0 /\ sent'[s].n > 0) =>
            /\ sent'[s].n = 1 /\ sent'[s].last = "connected"]_vars
    /\ [][\A s \in Ids : OneMore(s, "browser_ready") =>
            /\ sent[s].n >= 1
            /\ \E t \in ops \ ops' : /\ t.s = s /\ t.op = "initializeBrowser"
                                      /\ t.pc = "settled" /\ t.out = "ok"
            /\ ~ \E t \in ops' : t.s = s /\ t.op = "initializeBrowser"]_vars
    /\ [][\A t \in ops' : (t.op = "initializeBrowser"
                            /\ ~ \E u \in ops : u.s = t.s /\ u.op = t.op) =>
            /\ t.s \notin created /\ t.s \in created']_vars

C38_Witness ==
    /\ sent[1].n = 2 /\ sent[1].last = "browser_ready"
    /\ ~ \E t \in ops : t.op = "initializeBrowser"

(* C39: once the status of a session is verified it stays verified. *)
C39_VerifiedAbsorbing ==
    [][\A s \in Ids : status[s] = "verified" => status'[s] = "verified"]_vars

(* the page behaviours of C31: the code is entered, no password field is   *)
(* there right after it, the code field is found and the page shows p      *)
(* throughout the bounded wait                                             *)
CodeWaitOn(b, p) ==
    /\ b.input = "ok" /\ b.early = "none" /\ b.codeInput = "present"
    /\ b.wait = waitForFunction(codeCheck(p)) /\ b.clear = "ok"

C32_VerifiedOnlyOnMarker ==
    [][\A s \in Ids : (status[s] # "verified" /\ status'[s] = "verified") =>
          \E t \in ops \ ops' : /\ t.s = s /\ t.op \in {"submitCode", "submitPassword"}
                                /\ "success" \in t.fx]_vars

(* the submit control was found and its text holds the word *)
ControlSays(b, word) ==
    b.button = "found" /\ b.buttonText # <<>> /\ includes(b.buttonText, word)

(* C36: clickSubmitButton presses Enter and succeeds when the control is   *)
(* not found; BANNED or FLOOD in the control's text raises its error with  *)
(* nothing clicked or pressed; any other error reaches the caller.         *)
C36_SubmitControl ==
    /\ \A b \in PhoneBehaviours :
         LET c == clickSubmitButton(b) IN
         /\ (b.button = "notFound" /\ b.enter = "ok") =>
               c = Returned("ok", "", {"enter"})
         /\ ControlSays(b, "BANNED") => c = Thrown("Phone number is banned", {})
         /\ ControlSays(b, "FLOOD") =>
               c = Thrown("Too many attempts. Please try later", {})
         /\ b.button = "throws" => c = Thrown(ExceptionMessage, {})
         /\ (b.button = "notFound" /\ b.enter = "throws") =>
               c = Thrown(ExceptionMessage, {})
         /\ (b.button = "found" /\ ~ControlSays(b, "BANNED")
               /\ ~ControlSays(b, "FLOOD") /\ b.click = "throws") =>
               c = Thrown(ExceptionMessage, {})
    /\ [][\A u \in ops \ ops' : (u.op = "submitPhone" /\ u.pc = "drive") =>
            \E r \in Results["submitPhone"][u.pg \notin live[u.s]] :
                Finish(u, r) \in ops']_vars

C36_Witness ==
    \E t \in ops : /\ t.op = "submitPhone" /\ t.pc = "settled"
                   /\ t.out = "ok" /\ t.fx = {"enter"}

(* both sets show a visible element on the pass that ends the wait *)
BothVisible(p) == p.active /\ p.first /\ p.second

(* C40: a pass of waitForEither on which both sets show a visible element  *)
(* returns condition1, and submitPhone then reports success.               *)
C40_FirstSetWins ==
    /\ \A p \in EitherPasses : BothVisible(p) => waitForEitherPass(p) = "condition1"
    /\ \A p \in EitherPasses : \A b \in PhoneBehaviours :
         (/\ BothVisible(p) /\ b.either = waitForEitherPass(p)
          /\ b.input = "ok" /\ clickSubmitButton(b).out = "ok") =>
            /\ Result("submitPhone", b).out = "ok"
            /\ Result("submitPhone", b).msg = ""
    /\ [][\A s \in Ids : OneMore(s, "code_requested") =>
            \E t \in ops \ ops' : t.s = s /\ t.op = "submitPhone" /\ t.out = "ok"]_vars

C40_Witness ==
    /\ status[1] = "waiting_code"
    /\ \E p \in EitherPasses : \E b \in PhoneBehaviours :
          /\ BothVisible(p) /\ b.either = waitForEitherPass(p)
          /\ Result("submitPhone", b) = Returned("ok", "", {"clicked"})
    /\ sent[1].last = "code_requested" /\ delivered = 2 /\ ws[1] = "OPEN"
    /\ ~ \E t \in ops : t.op = "submitPhone"

(* one connection whose client submits, goes back and disconnects at will  *)
NextCode ==
    \/ handleConnection(1)
    \/ handlePhoneSubmission(1)
    \/ handleCodeSubmission(1)
    \/ handlePasswordSubmission(1)
    \/ handleUserReturnedToPhone(1)
    \/ wsClose(1)
    \/ InitializeStep
    \/ SubmissionStep
    \/ RemovalStep

(* continuations of settled promises run; every wait of submitCode is      *)
(* bounded (30000 ms for the code field, 500 ms, 10000 ms for the polled   *)
(* function) and each page call returns or fails, so its page interaction  *)
(* ends; the closes issued by cleanup() settle                             *)
CodeFairness ==
    /\ WF_vars(\E t \in ops : t.op = "submitCode" /\ driveDone(t))
    /\ WF_vars(\E t \in ops : \/ initializeBrowserResume(t)
                              \/ handlePhoneSubmissionResume(t)
                              \/ handleCodeSubmissionResume(t)
                              \/ handlePasswordSubmissionResume(t))
    /\ WF_vars(RemovalStep)

SpecCode == Init /\ [][NextCode]_vars /\ CodeFairness

CodeReplies == {"verification_success", "password_required", "verification_failed"}

(* session s has a submitCode call that has not been answered *)
CodeInFlight(s) == \E t \in ops : t.s = s /\ t.op = "submitCode"

(* C33 as stated: every accepted submit_code is eventually answered by     *)
(* verification_success, password_required or verification_failed, and the *)
(* status leaves processing_code.                                          *)
C33_CodeAnswered ==
    \A s \in Ids :
        (status[s] = "processing_code" /\ sent[s].last = "code_processing")
            ~> (sent[s].last \in CodeReplies /\ status[s] # "processing_code")

(* C33, amended: every accepted submit_code eventually has its             *)
(* continuation run, which takes the status out of processing_code and     *)
(* sends exactly one of the three replies if the socket is still open, and *)
(* nothing otherwise.                                                      *)
C33_CodeTerminates ==
    /\ \A s \in Ids :
          CodeInFlight(s) ~> (~CodeInFlight(s) /\ status[s] # "processing_code")
    /\ [][\A t \in ops \ ops' : (t.op = "submitCode" /\ t.pc = "settled") =>
            /\ status'[t.s] # "processing_code"
            /\ IF ws[t.s] = "OPEN"
               THEN sent'[t.s].n = sent[t.s].n + 1 /\ sent'[t.s].last \in CodeReplies
               ELSE sent' = sent]_vars

C33_Witness ==
    /\ status[1] = "waiting_password" /\ sent[1].last = "password_required"
    /\ ws[1] = "OPEN" /\ ~CodeInFlight(1) /\ delivered = 3
    /\ lastMsg.type = "submit_code"

(* C34: the element that waitForElement returns is the first one, in list  *)
(* order of the locators and query order of their matches, that passes the *)
(* requested checks on that pass: no element that passes them was left     *)
(* behind in an earlier position of the pass.                              *)
C34_FirstQualifyingReturned ==
    (search.fn = "waitForElement" /\ search.result = "element") => ~search.passed

(* C37: safeClick makes at most 3 attempts; it returns right after the     *)
(* first attempt that succeeds; it waits the backoff between a failed      *)
(* attempt and the next; after the last failed attempt it raises that      *)
(* attempt's error; it returns only after a successful click.              *)
C37_BoundedRetry ==
    /\ [](click.attempts <= 3)
    /\ [](click.pc = "done" =>
            /\ click.result \in {"returned", "thrown"}
            /\ click.waited = (click.attempts - 1) * retryDelay
            /\ click.result = "thrown" => click.attempts = 3 /\ click.err = 3)
    /\ [](click.result = "returned" => click.clicked)
    /\ [][(click.pc = "click" /\ click' # click) =>
            /\ click'.attempts = click.attempts + 1
            /\ click'.clicked => click'.pc = "done" /\ click'.result = "returned"
            /\ (~click'.clicked /\ click'.attempts < 3) =>
                  click'.pc = "backoff" /\ click'.waited = click.waited]_vars
    /\ [][(click.pc = "backoff" /\ click' # click) =>
            click'.pc = "click" /\ click'.waited = click.waited + retryDelay]_vars
    /\ [][click.pc = "done" => click' = click]_vars

C37_Witness ==
    /\ click.pc = "done" /\ click.result = "returned"
    /\ click.attempts = 3 /\ click.waited = 2 * retryDelay

(* C35: inputPhoneNumber types only the rest of the number, after the      *)
(* existing value and without removing anything, when the field's value is *)
(* a leading substring of the number, and otherwise clears the field and   *)
(* types the whole number; the field then holds the number.                *)
C35_FieldHoldsNumber ==
    field.pc = "returned" =>
       /\ IF startsWith(field.phone, field.before)
          THEN /\ field.typed = substring(field.phone, Len(field.before))
               /\ field.cleared => field.before = <<>>
          ELSE field.cleared /\ field.typed = field.phone
       /\ field.value = field.phone

============================================================================
